---- MODULE Spec2Model ----
(***************************************************************************)
(* A model of the cognitive-core service of mandala-maya-genie:            *)
(*   - the /chat boundary and the RAG pipeline (api/routes.py,             *)
(*     rag/pipeline.py, rag/retriever.py, llm/client.py),                  *)
(*   - the embedding adapter (rag/embeddings.py),                          *)
(*   - the /admin/ingest boundary and its background task (api/routes.py,  *)
(*     rag/ingestion.py).                                                  *)
(* External services (the language model, the embedding service, the       *)
(* vector store) are modelled by their outcomes: a call either raises or   *)
(* returns a value that is a deterministic function of its input.          *)
(***************************************************************************)
EXTENDS Integers, Sequences, FiniteSets, TLC

VARIABLES
  provider,     \* os.getenv("LLM_PROVIDER"), fixed for the process
  collection,   \* "absent" | "present": the row of mandala_public_kb in the store
  coll0,        \* the collection's state when the process started (history variable)
  kb,           \* the passages stored in the collection, in insertion order
  log,          \* what logger.error has written
  req,          \* per /chat request: the locals of chat, run_pipeline and build_chain
  src_pc,       \* source extraction on its own: position
  src_docs,     \*   result["source_documents"]
  src_out,      \*   the sources list
  emb,          \* the embedding adapter on its own: one embed_query / embed_documents call
  tmpfiles,     \* /admin/ingest: the temporary files that exist on disk
  tasks,        \*   background_tasks: the scheduled _ingest tasks, in order
  up,           \*   per upload: the locals of admin_ingest
  ingested      \*   paths whose ingest_file call completed

chatVars == <<provider, collection, coll0, kb, log, req>>
srcVars == <<src_pc, src_docs, src_out>>
embVars == <<emb>>
ingVars == <<tmpfiles, tasks, up, ingested>>
vars == <<chatVars, srcVars, embVars, ingVars>>

----------------------------------------------------------------------------
(* Bounds of the model *)

\* the longest history of the concurrent-exchange specification
MaxShortHist == 1
\* the longest history of the window specification (beyond 2 * MEMORY_K)
MaxHist == 22
\* the largest page number a loaded PDF page carries
MaxPage == 2
\* the longest list of texts handed to embed_documents
MaxTexts == 2
\* the number of /admin/ingest requests
MaxUploads == 2

(* Program constants *)

\* ConversationBufferWindowMemory(k=10)
MEMORY_K == 10
\* get_retriever(k=4)
RETRIEVER_K == 4

Reqs == {"r1", "r2"}
Messages == {1, 2}

----------------------------------------------------------------------------
(* Sequences *)

Min(a, b) == IF a < b THEN a ELSE b

Range(s) == {s[i] : i \in 1..Len(s)}

\* s[-n:] of Python
LastN(s, n) == IF Len(s) <= n THEN s ELSE SubSeq(s, Len(s) - n + 1, Len(s))

\* s[:n] of Python
FirstN(s, n) == SubSeq(s, 1, Min(Len(s), n))

SeqsUpTo(S, n) == UNION {[1..m -> S] : m \in 0..n}

----------------------------------------------------------------------------
(* The knowledge base: what rag/ingestion.py writes to the collection *)

PdfPaths == {"A.pdf"}
TextPaths == {"B.txt", "A.pdf_page_1.txt"}

\* PyPDFLoader: one document per page, metadata {source, page};
\* TextLoader: one document, metadata {source}. An absent page is <<>>.
LoadedMetadata ==
  {[source |-> <<p>>, page |-> <<n>>] : p \in PdfPaths, n \in 0..MaxPage}
    \cup {[source |-> <<p>>, page |-> <<>>] : p \in TextPaths}

Passage(text, topic, source, page) ==
  [text |-> text, topic |-> topic, source |-> <<source>>, page |-> page]

\* a populated collection: two chunks of one PDF page, a text file, another page
KBDocs ==
  << Passage("t1", 1, "A.pdf", <<1>>),
     Passage("t2", 1, "A.pdf", <<1>>),
     Passage("t3", 2, "B.txt", <<>>),
     Passage("t4", 2, "A.pdf", <<0>>),
     Passage("t5", 1, "A.pdf_page_1.txt", <<>>) >>

----------------------------------------------------------------------------
(* Source extraction: run_pipeline, lines 75-83 *)

\* doc.metadata.get("source", "unknown"); an absent key is <<>>
BareSource(doc) == IF doc.source = <<>> THEN "unknown" ELSE doc.source[1]

\* if page is not None: source = f"{source}_page_{page}"
SourceOf(doc) ==
  IF doc.page # <<>>
    THEN BareSource(doc) \o "_page_" \o ToString(doc.page[1])
    ELSE BareSource(doc)

\* the membership test made on the bare source, before the page is appended
AppendSourceBareTest(sources, doc) ==
  IF BareSource(doc) \in Range(sources) THEN sources ELSE Append(sources, SourceOf(doc))

\* if source not in sources: sources.append(source)
AppendSource(sources, doc) ==
  IF SourceOf(doc) \in Range(sources) THEN sources ELSE Append(sources, SourceOf(doc))

RECURSIVE ExtractFrom(_, _)
ExtractFrom(sources, docs) ==
  IF docs = <<>> THEN sources
  ELSE ExtractFrom(AppendSource(sources, Head(docs)), Tail(docs))

\* sources = []; if result.get("source_documents"): for doc in ...: ...
ExtractSources(docs) == ExtractFrom(<<>>, docs)

----------------------------------------------------------------------------
(* Conversation history and memory: build_chain, lines 25-38 *)

\* a caller-supplied turn; pydantic's ConversationMessage takes any string as role
Turn(i, b, p) ==
  [role |-> IF i = b THEN "system"
            ELSE IF (i + p) % 2 = 1 THEN "user" ELSE "assistant",
   content |-> i]

\* n turns, alternating from user (p = 0) or assistant (p = 1), the b-th (if any)
\* carrying an unrecognized role; a turn's content is its position
History(n, b, p) == [i \in 1..n |-> Turn(i, b, p)]

ShortHistories == {History(n, b, 0) : n \in 0..MaxShortHist, b \in 0..MaxShortHist}

LongHistories == {History(n, b, p) : n \in 0..MaxHist, b \in {0, 2}, p \in {0, 1}}

KnownRoles == {"user", "assistant"}

\* for msg in conversation_history: user -> HumanMessage, assistant -> AIMessage,
\* anything else: no branch, nothing is added
SeedMessages(history) ==
  LET kept == SelectSeq(history, LAMBDA m : m.role \in KnownRoles)
  IN  [i \in 1..Len(kept) |->
         [type |-> IF kept[i].role = "user" THEN "human" ELSE "ai",
          content |-> kept[i].content]]

\* the window keeps the last MEMORY_K turns
WindowOfKTurns(messages) == LastN(messages, MEMORY_K)

\* ConversationBufferWindowMemory(k=10, return_messages=True) hands the chain
\* messages[-k * 2:], the last k exchanges
LoadMemory(messages) == LastN(messages, 2 * MEMORY_K)

----------------------------------------------------------------------------
(* The language model: llm/client.py *)

SupportedProviders == {"anthropic", "openai", "gemini", "claude-code"}
Providers == {"anthropic", "bogus"}

Error(type, msg) == [type |-> type, msg |-> msg]

\* get_llm: raise ValueError(f"Unsupported LLM_PROVIDER: {provider}")
GetLlmError(p) == Error("ValueError", "Unsupported LLM_PROVIDER: " \o p)

\* the chain's question generator: the standalone question is a function of the
\* chat history and the message (the chain skips it on an empty history)
Condense(chat_history, message) ==
  IF chat_history = <<>> THEN [q |-> message, ctx |-> <<>>]
  ELSE [q |-> message, ctx |-> chat_history]

\* the combine-documents call: the answer is a function of the prompt, which
\* holds the passages' texts in retrieval order and the question
Generate(docs, question) ==
  [context |-> [i \in 1..Len(docs) |-> docs[i].text], question |-> question]

----------------------------------------------------------------------------
(* The embedding adapter: rag/embeddings.py *)

Statuses == {200, 304, 404, 500}
Bodies == {"values", "not_json", "no_values", "null_values"}

\* what requests.post meets: no answer within the timeout, or a status and a body
\*   "values"      {"embedding": {"values": [...]}}
\*   "not_json"    a body that is not JSON
\*   "no_values"   JSON without embedding.values
\*   "null_values" {"embedding": {"values": null}}
Timeout == [kind |-> "timeout", status |-> 0, body |-> "none"]
EmbedResponses ==
  {Timeout} \cup {[kind |-> "response", status |-> s, body |-> b] : s \in Statuses, b \in Bodies}

\* the vector the service computes: a function of the text and the task type
Vector(text, task_type) == [text |-> text, task |-> task_type]
\* the JSON null, as Python's None
NullValue == [text |-> <<>>, task |-> "null"]

Raised(e) == [raised |-> <<e>>, value |-> <<>>]
Returned(v) == [raised |-> <<>>, value |-> <<v>>]

\* Response.raise_for_status raises HTTPError for 4xx and 5xx
RaisesForStatus(status) == 400 <= status /\ status < 600

\* _embed: requests.post(..., timeout=30); resp.raise_for_status();
\* return resp.json()["embedding"]["values"]
Embed(text, task_type, resp) ==
  IF resp.kind = "timeout" THEN Raised(Error("Timeout", "read timed out"))
  ELSE IF RaisesForStatus(resp.status)
    THEN Raised(Error("HTTPError", ToString(resp.status) \o " for url"))
  ELSE IF resp.body = "not_json" THEN Raised(Error("JSONDecodeError", "Expecting value"))
  ELSE IF resp.body = "no_values" THEN Raised(Error("KeyError", "embedding"))
  ELSE IF resp.body = "null_values" THEN Returned(NullValue)
  ELSE Returned(Vector(text, task_type))

----------------------------------------------------------------------------
(* The vector store: rag/retriever.py *)

\* similarity search: the passages on a topic the query mentions come first, each
\* group in the store's insertion order; at most k are returned
Mentions(vec) ==
  {vec.text.q} \cup {vec.text.ctx[i].content : i \in 1..Len(vec.text.ctx)}

TopK(docs, vec, k) ==
  LET near == SelectSeq(docs, LAMBDA d : d.topic \in Mentions(vec))
      far  == SelectSeq(docs, LAMBDA d : d.topic \notin Mentions(vec))
  IN  FirstN(near \o far, k)

----------------------------------------------------------------------------
(* One /chat request: chat (api/routes.py) and run_pipeline, build_chain
   (rag/pipeline.py). An absent value is <<>>, a present one <<v>>. *)

IdleReq ==
  [pc |-> "idle", message |-> 0, history |-> <<>>, memory |-> <<>>,
   chat_history |-> <<>>, question |-> <<>>, vec |-> <<>>, docs |-> <<>>,
   answer |-> <<>>, exc |-> <<>>, ret |-> <<>>, http |-> <<>>,
   fault |-> "", trace |-> <<>>]

\* generation placed before retrieval
StepOrderGenerateFirst ==
  << "get_llm", "get_retriever", "seed_memory", "contextualize", "embed",
     "generate", "retrieve", "extract" >>

\* the statements of build_chain and run_pipeline, in program order
StepOrder ==
  << "get_llm", "get_retriever", "seed_memory", "contextualize", "embed",
     "retrieve", "generate", "extract" >>

IndexOf(seq, x) == CHOOSE i \in 1..Len(seq) : seq[i] = x

NextPc(step) ==
  IF IndexOf(StepOrder, step) = Len(StepOrder) THEN "returned"
  ELSE StepOrder[IndexOf(StepOrder, step) + 1]

\* a step that completed: control passes to the next statement
Completed(rec, step) ==
  [rec EXCEPT !.pc = NextPc(step), !.trace = Append(@, step)]

\* the failure caught inside run_pipeline and answered with an empty result
Masked(rec, step, e) ==
  [rec EXCEPT !.pc = "returned", !.fault = step, !.trace = Append(@, step),
              !.ret = << [response |-> Generate(<<>>, Condense(<<>>, rec.message)),
                          sources |-> <<>>] >>]

\* run_pipeline and build_chain hold no try: an exception raised by a step
\* leaves run_pipeline
Propagated(rec, step, e) ==
  [rec EXCEPT !.pc = "raised", !.fault = step, !.trace = Append(@, step),
              !.exc = <<e>>]

\* the memory object of another request, as a module-level memory would be
SharedMemory(r) ==
  LET seeded == {q \in Reqs \ {r} : req[q].memory # <<>>}
  IN  IF seeded = {} THEN <<>> ELSE req[CHOOSE q \in seeded : TRUE].memory

\* memory = ConversationBufferWindowMemory(...): a new, empty object per call
NewMemory(r) == <<>>

\* detail=str(e)
LeakedDetail(e) == e.msg

\* HTTPException(status_code=500, detail="Failed to generate response")
FailureDetail(e) == "Failed to generate response"

\* getattr(llm, "model", None) or getattr(llm, "model_name", "unknown")
ModelName(p) == "model of " \o p

\* chat, line 24: the request arrives, history = [msg.model_dump() ...]
Receive(r, histories) ==
  /\ req[r].pc = "idle"
  /\ \E m \in Messages, h \in histories :
       req' = [req EXCEPT ![r] = [@ EXCEPT !.pc = StepOrder[1], !.message = m,
                                            !.history = h]]
  /\ UNCHANGED <<provider, collection, coll0, kb, log, srcVars, embVars, ingVars>>

\* build_chain, line 22: llm = get_llm()
GetLlm(r) ==
  /\ req[r].pc = "get_llm"
  /\ req' = [req EXCEPT ![r] =
       IF provider \in SupportedProviders
         THEN Completed(@, "get_llm")
         ELSE Propagated(@, "get_llm", GetLlmError(provider))]
  /\ UNCHANGED <<provider, collection, coll0, kb, log, srcVars, embVars, ingVars>>

\* build_chain, line 23: get_retriever(k=4) constructs PGVector, which connects to
\* the store and creates the collection when it does not exist
GetRetriever(r) ==
  /\ req[r].pc = "get_retriever"
  /\ \E reachable \in BOOLEAN :
       IF reachable
         THEN /\ collection' = "present"
              /\ req' = [req EXCEPT ![r] = Completed(@, "get_retriever")]
         ELSE /\ collection' = collection
              /\ req' = [req EXCEPT ![r] =
                   Propagated(@, "get_retriever",
                              Error("OperationalError", "could not connect to server"))]
  /\ UNCHANGED <<provider, coll0, kb, log, srcVars, embVars, ingVars>>

\* build_chain, lines 25-38: the memory and its messages
SeedMemory(r) ==
  /\ req[r].pc = "seed_memory"
  /\ req' = [req EXCEPT ![r] =
       [Completed(@, "seed_memory") EXCEPT
          !.memory = NewMemory(r) \o SeedMessages(req[r].history)]]
  /\ UNCHANGED <<provider, collection, coll0, kb, log, srcVars, embVars, ingVars>>

\* chain.invoke, first part: the memory's window is loaded and, when it is not
\* empty, the question generator rewrites the message
Contextualize(r) ==
  /\ req[r].pc = "contextualize"
  /\ LET window == LoadMemory(req[r].memory)
     IN  \E ok \in BOOLEAN :
           req' = [req EXCEPT ![r] =
             IF window # <<>> /\ ~ok
               THEN [Propagated(@, "contextualize", Error("APIError", "rate limited"))
                       EXCEPT !.chat_history = window]
               ELSE [Completed(@, "contextualize") EXCEPT
                       !.chat_history = window,
                       !.question = <<Condense(window, req[r].message)>>]]
  /\ UNCHANGED <<provider, collection, coll0, kb, log, srcVars, embVars, ingVars>>

\* the retriever embeds the question: GeminiRESTEmbeddings.embed_query
\* (the service's well-formed bodies carry a vector here)
EmbedQuestion(r) ==
  /\ req[r].pc = "embed"
  /\ \E resp \in {x \in EmbedResponses : x.body # "null_values"} :
       LET out == Embed(req[r].question[1], "RETRIEVAL_QUERY", resp)
       IN  req' = [req EXCEPT ![r] =
             IF out.raised # <<>>
               THEN Propagated(@, "embed", out.raised[1])
               ELSE [Completed(@, "embed") EXCEPT !.vec = out.value]]
  /\ UNCHANGED <<provider, collection, coll0, kb, log, srcVars, embVars, ingVars>>

\* the retriever's similarity search in the collection
Retrieve(r) ==
  /\ req[r].pc = "retrieve"
  /\ \E reachable \in BOOLEAN :
       req' = [req EXCEPT ![r] =
         IF ~reachable
           THEN Propagated(@, "retrieve",
                           Error("OperationalError", "server closed the connection"))
         ELSE IF collection = "absent"
           THEN Propagated(@, "retrieve", Error("ValueError", "Collection not found"))
         ELSE [Completed(@, "retrieve") EXCEPT
                 !.docs = IF req[r].vec = <<>> THEN <<>>
                          ELSE TopK(kb, req[r].vec[1], RETRIEVER_K)]]
  /\ UNCHANGED <<provider, collection, coll0, kb, log, srcVars, embVars, ingVars>>

\* the combine-documents chain calls the language model (the chain then saves
\* the exchange into its own memory object, which nothing reads again)
GenerateAnswer(r) ==
  /\ req[r].pc = "generate"
  /\ \E ok \in BOOLEAN :
       req' = [req EXCEPT ![r] =
         IF ok
           THEN [Completed(@, "generate") EXCEPT
                   !.answer = <<Generate(req[r].docs, req[r].question[1])>>]
           ELSE Propagated(@, "generate", Error("APIError", "overloaded"))]
  /\ UNCHANGED <<provider, collection, coll0, kb, log, srcVars, embVars, ingVars>>

\* run_pipeline, lines 75-88
ExtractAndReturn(r) ==
  /\ req[r].pc = "extract"
  /\ req' = [req EXCEPT ![r] =
       [Completed(@, "extract") EXCEPT
          !.ret = << [response |-> req[r].answer[1],
                      sources |-> ExtractSources(req[r].docs)] >>]]
  /\ UNCHANGED <<provider, collection, coll0, kb, log, srcVars, embVars, ingVars>>

\* chat, lines 31-33: except Exception as e
ChatExcept(r) ==
  /\ req[r].pc = "raised"
  /\ log' = log \cup {[request |-> r, error |-> req[r].exc[1]]}
  /\ req' = [req EXCEPT ![r] =
       [@ EXCEPT !.pc = "responded",
                 !.http = << [status |-> 500, detail |-> FailureDetail(req[r].exc[1]),
                              body |-> <<>>] >>]]
  /\ UNCHANGED <<provider, collection, coll0, kb, srcVars, embVars, ingVars>>

\* chat, lines 35-43
ChatReturn(r) ==
  /\ req[r].pc = "returned"
  /\ req' = [req EXCEPT ![r] =
       [@ EXCEPT !.pc = "responded",
                 !.http =
                   IF provider \in SupportedProviders
                     THEN << [status |-> 200, detail |-> "",
                              body |-> << [session_id |-> r,
                                           response |-> req[r].ret[1].response,
                                           sources |-> req[r].ret[1].sources,
                                           model_used |-> ModelName(provider)] >>] >>
                     ELSE << [status |-> 500, detail |-> "Internal Server Error",
                              body |-> <<>>] >>]]
  /\ UNCHANGED <<provider, collection, coll0, kb, log, srcVars, embVars, ingVars>>

Exchange(r) ==
  \/ GetLlm(r) \/ GetRetriever(r) \/ SeedMemory(r) \/ Contextualize(r)
  \/ EmbedQuestion(r) \/ Retrieve(r) \/ GenerateAnswer(r) \/ ExtractAndReturn(r)
  \/ ChatExcept(r) \/ ChatReturn(r)

----------------------------------------------------------------------------
(* Source extraction on its own: the loop of run_pipeline over every list of
   at most k passages the retriever can return *)

ExtractStep ==
  /\ src_pc = "start"
  /\ src_out' = ExtractSources(src_docs)
  /\ src_pc' = "done"
  /\ UNCHANGED <<src_docs, chatVars, embVars, ingVars>>

----------------------------------------------------------------------------
(* The embedding adapter on its own: one embed_query or embed_documents call.
   posts counts the requests.post calls, invoked the _embed invocations, calls
   records each invocation's response and whether it raised. *)

Texts == {1, 2}

IdleEmb ==
  [pc |-> "idle", task |-> "none", texts |-> <<>>, out |-> <<>>, exc |-> <<>>,
   posts |-> 0, invoked |-> 0, calls |-> <<>>]

\* embed_query(text): self._embed(text, "RETRIEVAL_QUERY")
EmbedQuery ==
  /\ emb.pc = "idle"
  /\ \E t \in Texts :
       emb' = [emb EXCEPT !.pc = "embedding", !.task = "RETRIEVAL_QUERY", !.texts = <<t>>]
  /\ UNCHANGED <<chatVars, srcVars, ingVars>>

\* embed_documents(texts): [self._embed(t, "RETRIEVAL_DOCUMENT") for t in texts]
EmbedDocuments ==
  /\ emb.pc = "idle"
  /\ \E ts \in SeqsUpTo(Texts, MaxTexts) :
       emb' = [emb EXCEPT !.pc = IF ts = <<>> THEN "returned" ELSE "embedding",
                          !.task = "RETRIEVAL_DOCUMENT", !.texts = ts]
  /\ UNCHANGED <<chatVars, srcVars, ingVars>>

\* one invocation of _embed, for the next text
EmbedOne ==
  /\ emb.pc = "embedding"
  /\ \E resp \in EmbedResponses :
       LET text == emb.texts[Len(emb.out) + 1]
           res  == Embed(text, emb.task, resp)
           call == [resp |-> resp, raised |-> res.raised # <<>>, value |-> res.value]
       IN  emb' = [emb EXCEPT
                     !.posts = @ + 1,
                     !.invoked = @ + 1,
                     !.calls = Append(@, call),
                     !.exc = res.raised,
                     !.out = IF res.raised # <<>> THEN @ ELSE Append(@, res.value[1]),
                     !.pc = IF res.raised # <<>> THEN "raised"
                            ELSE IF Len(emb.out) + 1 = Len(emb.texts) THEN "returned"
                            ELSE "embedding"]
  /\ UNCHANGED <<chatVars, srcVars, ingVars>>

----------------------------------------------------------------------------
(* /admin/ingest and its background task: api/routes.py, lines 46-85 *)

Uploads == 1..MaxUploads

\* os.getenv("ADMIN_TOKEN", "")
AdminToken == "s3cret"
Authorizations == {"Bearer " \o AdminToken, AdminToken}

\* file.filename, as its characters; <<>> is a missing name (file.filename or "")
Filenames ==
  { <<"a", ".", "p", "d", "f">>, <<"A", ".", "T", "X", "T">>,
    <<"a", ".", "e", "x", "e">>, <<".", "p", "d", "f">>, <<>> }

\* str.rfind, 1-based, 0 when absent
RFind(s, c) ==
  IF \E i \in 1..Len(s) : s[i] = c
    THEN CHOOSE i \in 1..Len(s) : s[i] = c /\ \A j \in (i + 1)..Len(s) : s[j] # c
    ELSE 0

\* os.path.splitext(p)[1]: from the last dot, unless that dot is among the leading
\* dots of the last path component
SplitExt(p) ==
  LET sep == RFind(p, "/")
      dot == RFind(p, ".")
  IN  IF dot > sep /\ \E k \in (sep + 1)..(dot - 1) : p[k] # "."
        THEN SubSeq(p, dot, Len(p))
        ELSE <<>>

UpperCase == <<"A", "D", "E", "F", "P", "T", "X">>
LowerCase == <<"a", "d", "e", "f", "p", "t", "x">>

\* str.lower
Lower(s) ==
  [i \in 1..Len(s) |->
     IF s[i] \in Range(UpperCase) THEN LowerCase[IndexOf(UpperCase, s[i])] ELSE s[i]]

\* (".pdf", ".txt")
AllowedExts == { <<".", "p", "d", "f">>, <<".", "t", "x", "t">> }

\* tempfile.NamedTemporaryFile(delete=False, suffix=ext): a name no other call gets
TmpName(u, ext) == [n |-> u, suffix |-> ext]

IdleUp ==
  [pc |-> "start", authorization |-> "", filename |-> <<>>, tmp |-> <<>>,
   scheduled |-> FALSE, outcome |-> ""]

\* the temporary file stays when ingest_file raises
UnlinkOnSuccess(files, path, outcome) ==
  IF outcome = "complete" THEN files \ {path} ELSE files

\* _ingest, finally: os.unlink(path)
UnlinkFinally(files, path, outcome) == files \ {path}

\* lines 52-59: the Authorization header and the extension are checked
CheckRequest(u) ==
  /\ up[u].pc = "start"
  /\ \E a \in Authorizations, f \in Filenames :
       up' = [up EXCEPT ![u] =
         [@ EXCEPT !.authorization = a, !.filename = f,
                   !.pc = IF a # "Bearer " \o AdminToken THEN "rejected_401"
                          ELSE IF Lower(SplitExt(f)) \notin AllowedExts THEN "rejected_400"
                          ELSE "checked"]]
  /\ UNCHANGED <<tmpfiles, tasks, ingested, chatVars, srcVars, embVars>>

\* line 62: the temporary file is created
CreateTmp(u) ==
  /\ up[u].pc = "checked"
  /\ LET path == TmpName(u, Lower(SplitExt(up[u].filename)))
     IN  /\ tmpfiles' = tmpfiles \cup {path}
         /\ up' = [up EXCEPT ![u] = [@ EXCEPT !.pc = "created", !.tmp = <<path>>]]
  /\ UNCHANGED <<tasks, ingested, chatVars, srcVars, embVars>>

\* lines 63-69: the upload is copied; on an exception the file is closed and
\* unlinked and the exception raised again
CopyUpload(u) ==
  /\ up[u].pc = "created"
  /\ \E ok \in BOOLEAN :
       IF ok
         THEN /\ up' = [up EXCEPT ![u] = [@ EXCEPT !.pc = "copied"]]
              /\ tmpfiles' = tmpfiles
         ELSE /\ up' = [up EXCEPT ![u] = [@ EXCEPT !.pc = "copy_failed"]]
              /\ tmpfiles' = tmpfiles \ {up[u].tmp[1]}
  /\ UNCHANGED <<tasks, ingested, chatVars, srcVars, embVars>>

\* lines 80-85: background_tasks.add_task(_ingest, tmp.name) and the response
Schedule(u) ==
  /\ up[u].pc = "copied"
  /\ tasks' = tasks \cup {up[u].tmp[1]}
  /\ up' = [up EXCEPT ![u] = [@ EXCEPT !.pc = "responded", !.scheduled = TRUE]]
  /\ UNCHANGED <<tmpfiles, ingested, chatVars, srcVars, embVars>>

\* _ingest, lines 72-76: ingest_file(path) returns a count or raises
IngestFile(u) ==
  /\ up[u].pc = "responded"
  /\ up[u].tmp[1] \in tasks
  /\ \E ok \in BOOLEAN :
       /\ up' = [up EXCEPT ![u] =
            [@ EXCEPT !.pc = "ingest_ended",
                      !.outcome = IF ok THEN "complete" ELSE "failed"]]
       /\ ingested' = IF ok THEN ingested \cup {up[u].tmp[1]} ELSE ingested
  /\ UNCHANGED <<tmpfiles, tasks, chatVars, srcVars, embVars>>

\* _ingest, lines 77-78: finally
FinishIngest(u) ==
  /\ up[u].pc = "ingest_ended"
  /\ tmpfiles' = UnlinkFinally(tmpfiles, up[u].tmp[1], up[u].outcome)
  /\ tasks' = tasks \ {up[u].tmp[1]}
  /\ up' = [up EXCEPT ![u] = [@ EXCEPT !.pc = "task_done"]]
  /\ UNCHANGED <<ingested, chatVars, srcVars, embVars>>

\* what the server goes on to do for an upload once the request has arrived
UploadStep(u) ==
  \/ CreateTmp(u) \/ CopyUpload(u) \/ Schedule(u) \/ IngestFile(u) \/ FinishIngest(u)

----------------------------------------------------------------------------
(* Specifications *)

ChatIdle ==
  /\ provider = "anthropic"
  /\ collection = "present"
  /\ coll0 = "populated"
  /\ kb = KBDocs
  /\ log = {}
  /\ req = [r \in Reqs |-> IdleReq]

SourcesIdle == src_pc = "off" /\ src_docs = <<>> /\ src_out = <<>>

EmbedIdle == emb = IdleEmb

IngestIdle ==
  /\ tmpfiles = {}
  /\ tasks = {}
  /\ up = [u \in Uploads |-> IdleUp]
  /\ ingested = {}

\* the process starts with a provider configured and the store in some state
InitChat ==
  /\ provider \in Providers
  /\ coll0 \in {"absent", "empty", "populated"}
  /\ collection = IF coll0 = "absent" THEN "absent" ELSE "present"
  /\ kb = IF coll0 = "populated" THEN KBDocs ELSE <<>>
  /\ log = {}
  /\ req = [r \in Reqs |-> IdleReq]

\* concurrent exchanges
Init == InitChat /\ SourcesIdle /\ EmbedIdle /\ IngestIdle

Next == \E r \in Reqs : Receive(r, ShortHistories) \/ Exchange(r)

Spec == Init /\ [][Next]_vars

\* one exchange over long histories
NextWindow == Receive("r1", LongHistories) \/ Exchange("r1")

SpecWindow == Init /\ [][NextWindow]_vars

\* source extraction over the lists of passages the retriever can return
InitSources ==
  /\ src_pc = "start"
  /\ src_docs \in SeqsUpTo(LoadedMetadata, RETRIEVER_K)
  /\ src_out = <<>>
  /\ ChatIdle /\ EmbedIdle /\ IngestIdle

SpecSources == InitSources /\ [][ExtractStep]_vars

\* the embedding adapter
InitEmbed == ChatIdle /\ SourcesIdle /\ EmbedIdle /\ IngestIdle

NextEmbed == EmbedQuery \/ EmbedDocuments \/ EmbedOne

SpecEmbed == InitEmbed /\ [][NextEmbed]_vars

\* uploads; the server runs every handler and every background task it started
InitIngest == ChatIdle /\ SourcesIdle /\ EmbedIdle /\ IngestIdle

NextIngest == \E u \in Uploads : CheckRequest(u) \/ UploadStep(u)

SpecIngest ==
  InitIngest /\ [][NextIngest]_vars /\ \A u \in Uploads : WF_vars(UploadStep(u))

----------------------------------------------------------------------------
(* Properties *)

NoRepeats(s) == \A i, j \in 1..Len(s) : s[i] = s[j] => i = j

\* the first position of a passage whose display identifier is e
FirstShown(docs, e, shown(_)) ==
  CHOOSE i \in 1..Len(docs) :
    shown(docs[i]) = e /\ \A j \in 1..(i - 1) : shown(docs[j]) # e

\* the entry the spec gives a passage: the source identifier alone, or with
\* "_page_" and the page number when there is a page
DisplayId(d) ==
  IF d.page = <<>> THEN d.source[1] ELSE d.source[1] \o "_page_" \o ToString(d.page[1])

SpecExample ==
  << [source |-> <<"A.pdf">>, page |-> <<1>>], [source |-> <<"A.pdf">>, page |-> <<1>>],
     [source |-> <<"B.txt">>, page |-> <<>>], [source |-> <<"A.pdf">>, page |-> <<2>>] >>

\* C1: the sources list of run_pipeline holds no entry twice, holds exactly one
\* entry per distinct (source, page) pair of the retrieved passages, each entry
\* the source alone or source_page_N, in the order the pairs first occur; the
\* spec's example [{A,1},{A,1},{B,none},{A,2}] gives [A_page_1, B, A_page_2].
C1_SourcesDeduplicated ==
  src_pc = "done" =>
    /\ NoRepeats(src_out)
    /\ Len(src_out) = Cardinality({<<d.source, d.page>> : d \in Range(src_docs)})
    /\ Range(src_out) = {DisplayId(d) : d \in Range(src_docs)}
    /\ \A i, j \in 1..Len(src_out) :
         i < j => FirstShown(src_docs, src_out[i], DisplayId)
                    < FirstShown(src_docs, src_out[j], DisplayId)
    /\ src_docs = SpecExample => src_out = <<"A.pdf_page_1", "B.txt", "A.pdf_page_2">>

C1_Witness ==
  /\ src_pc = "done"
  /\ src_docs = SpecExample
  /\ src_out = <<"A.pdf_page_1", "B.txt", "A.pdf_page_2">>

\* C2: once a step of an exchange has failed, run_pipeline has returned no dict
\* (no partial answer, no partial sources) and the failure is the exception
\* that left run_pipeline; a returned dict means no step failed.
C2_FailureAborts ==
  \A r \in Reqs :
    /\ req[r].fault # "" =>
         /\ req[r].ret = <<>>
         /\ req[r].exc # <<>>
         /\ req[r].pc \in {"raised", "responded"}
    /\ req[r].ret # <<>> => req[r].fault = "" /\ req[r].exc = <<>>

C2_Witness ==
  \E r \in Reqs :
    /\ req[r].fault = "generate"
    /\ req[r].docs # <<>>
    /\ req[r].pc = "raised"
    /\ req[r].ret = <<>>

HasUnknownRole(history) == \E i \in 1..Len(history) : history[i].role \notin KnownRoles

\* C3: a history with a turn whose role is neither "user" nor "assistant" is
\* rejected with a ValidationError when the memory is built: it never yields a
\* window and never an answer.
C3_UnknownRoleRejected ==
  \A r \in Reqs :
    (HasUnknownRole(req[r].history) /\ "seed_memory" \in Range(req[r].trace)) =>
      /\ req[r].exc # <<>>
      /\ req[r].exc[1].type = "ValidationError"
      /\ req[r].ret = <<>>

AllKnownRoles(history) == ~HasUnknownRole(history)

WindowBuilt(r) == "contextualize" \in Range(req[r].trace)

\* the window w holds the last n turns of the history h, in h's order
IsSuffixWindow(w, h, n) ==
  /\ Len(w) = Min(Len(h), n)
  /\ \A i \in 1..Len(w) :
       /\ w[i].content = h[Len(h) - Len(w) + i].content
       /\ w[i].type = IF h[Len(h) - Len(w) + i].role = "user" THEN "human" ELSE "ai"

\* C4 as stated: for a history of user/assistant turns the window is the
\* history's suffix of at most k = 10 turns, in order.
C4_WindowOfTenTurns ==
  \A r \in Reqs :
    (WindowBuilt(r) /\ AllKnownRoles(req[r].history)) =>
      IsSuffixWindow(req[r].chat_history, req[r].history, MEMORY_K)

\* C4 as amended: for a history of user/assistant turns the window is a
\* contiguous suffix of the history in its order, holding the most recent
\* 2 * k = 20 turns (k = 10 exchanges) once the history is longer than that.
C4_WindowOfTenExchanges ==
  \A r \in Reqs :
    (WindowBuilt(r) /\ AllKnownRoles(req[r].history)) =>
      IsSuffixWindow(req[r].chat_history, req[r].history, 2 * MEMORY_K)

C4_Witness ==
  \E r \in Reqs :
    /\ WindowBuilt(r)
    /\ AllKnownRoles(req[r].history)
    /\ Len(req[r].history) > 2 * MEMORY_K
    /\ Len(req[r].chat_history) = 2 * MEMORY_K
    /\ req[r].chat_history[1].content = Len(req[r].history) - 2 * MEMORY_K + 1

\* C5: when the collection does not exist, an exchange does not complete: it
\* ends with a retriever error, never with an answer and an empty sources list.
C5_AbsentCollectionFails ==
  \A r \in Reqs :
    (coll0 = "absent" /\ req[r].pc \in {"returned", "responded"}) =>
      /\ req[r].exc # <<>>
      /\ req[r].ret = <<>>

GenericDetail == "Failed to generate response"

\* C6: whatever error left run_pipeline, /chat answers HTTP 500 with the one
\* generic detail, which is not the error's text, holds no ChatResponse, and
\* the error itself is in the log.
C6_GenericFailure ==
  \A r \in Reqs :
    (req[r].exc # <<>> /\ req[r].pc = "responded") =>
      /\ req[r].http # <<>>
      /\ req[r].http[1].status = 500
      /\ req[r].http[1].detail = GenericDetail
      /\ req[r].http[1].detail # req[r].exc[1].msg
      /\ req[r].http[1].body = <<>>
      /\ [request |-> r, error |-> req[r].exc[1]] \in log

C6_Witness ==
  /\ \A r \in Reqs : req[r].pc = "responded" /\ req[r].exc # <<>>
  /\ req["r1"].exc[1].type = "HTTPError"
  /\ req["r2"].exc[1].type = "OperationalError"
  /\ req["r1"].http = req["r2"].http

\* the result of an exchange as a function of its message, its history and the
\* knowledge base
KB0 == IF coll0 = "populated" THEN KBDocs ELSE <<>>

ResultOf(message, history, docs) ==
  LET window   == LoadMemory(SeedMessages(history))
      question == Condense(window, message)
      found    == TopK(docs, Vector(question, "RETRIEVAL_QUERY"), RETRIEVER_K)
  IN  [response |-> Generate(found, question), sources |-> ExtractSources(found)]

\* C7: under every interleaving, and whatever other exchanges did or failed to
\* do, an exchange's memory holds its own history's turns only, and the answer
\* and sources it returns are those its own message, its own history and the
\* knowledge base determine.
C7_Isolated ==
  \A r \in Reqs :
    /\ req[r].memory \in {<<>>, SeedMessages(req[r].history)}
    /\ req[r].ret # <<>> =>
         req[r].ret[1] = ResultOf(req[r].message, req[r].history, KB0)

C7_Witness ==
  /\ coll0 = "populated"
  /\ req["r1"].ret # <<>> /\ req["r1"].chat_history # <<>>
  /\ req["r2"].exc # <<>> /\ req["r2"].fault = "generate" /\ req["r2"].memory # <<>>
  /\ req["r1"].message # req["r2"].message

Position(s, x) == CHOOSE i \in 1..Len(s) : s[i] = x

Precedes(s, a, b) ==
  b \in Range(s) => (a \in Range(s) /\ Position(s, a) < Position(s, b))

\* C8: within one exchange every step runs at most once and in order: the
\* window is built before the query is contextualized, the query is embedded
\* before retrieval, retrieval completes before generation starts, and the
\* sources are extracted and the result returned only after generation.
C8_Sequential ==
  \A r \in Reqs :
    /\ NoRepeats(req[r].trace)
    /\ Precedes(req[r].trace, "seed_memory", "contextualize")
    /\ Precedes(req[r].trace, "contextualize", "embed")
    /\ Precedes(req[r].trace, "embed", "retrieve")
    /\ Precedes(req[r].trace, "retrieve", "generate")
    /\ Precedes(req[r].trace, "generate", "extract")
    /\ req[r].ret # <<>> =>
         /\ req[r].answer # <<>>
         /\ req[r].trace[Len(req[r].trace)] = "extract"

C8_Witness ==
  \E r \in Reqs :
    /\ req[r].ret # <<>>
    /\ req[r].trace = StepOrder
    /\ req[r].docs # <<>>

BadResponse(resp) ==
  \/ resp.kind = "timeout"
  \/ ~(200 <= resp.status /\ resp.status < 300)
  \/ resp.body # "values"

\* C9: every _embed invocation makes exactly one outbound call, and on a
\* timeout, a non-2xx status or a malformed body it raises and returns no value.
C9_EmbedFailsOnBadResponse ==
  /\ emb.posts = emb.invoked
  /\ \A i \in 1..Len(emb.calls) :
       BadResponse(emb.calls[i].resp) =>
         emb.calls[i].raised /\ emb.calls[i].value = <<>>

TmpExists(u) == \E p \in tmpfiles : p.n = u

EndsInPdfOrTxt(f) ==
  Len(f) >= 4 /\ Lower(SubSeq(f, Len(f) - 3, Len(f))) \in AllowedExts

C10_Safe(u) ==
  /\ (up[u].pc # "start"
        /\ (up[u].authorization # "Bearer " \o AdminToken \/ ~EndsInPdfOrTxt(up[u].filename)))
       => (up[u].tmp = <<>> /\ ~TmpExists(u) /\ ~up[u].scheduled)
  /\ up[u].pc = "copy_failed" =>
       (~TmpExists(u) /\ ~up[u].scheduled /\ up[u].tmp[1] \notin tasks)
  /\ up[u].pc \in {"created", "copied", "responded", "ingest_ended"} =>
       up[u].tmp[1] \in tmpfiles
  /\ up[u].pc = "task_done" =>
       (~TmpExists(u) /\ up[u].outcome \in {"complete", "failed"})

\* C10: every temporary file admin_ingest creates is eventually deleted: before
\* the error propagates and with nothing scheduled when the copy fails, else
\* once the background task's ingest_file has ended, complete or failed, and
\* not before; a request with another Authorization header or a name not
\* ending in .pdf or .txt creates no file and schedules nothing.
C10_TmpFilesDeleted ==
  /\ [](\A u \in Uploads : C10_Safe(u))
  /\ \A u \in Uploads : TmpExists(u) ~> ~TmpExists(u)

C10_Witness ==
  /\ up[1].pc = "task_done" /\ up[1].outcome = "failed" /\ ~TmpExists(1)
  /\ up[2].pc = "copy_failed" /\ ~TmpExists(2)

====
